---- MODULE Spec2Model ----
(***************************************************************************)
(* control.cc -- the generator of the control-logic PROM images of the     *)
(* 16-Bit Computer From Scratch.                                           *)
(*                                                                         *)
(* A 64-bit control word (uint64_t) is modelled as the set of its set bit  *)
(* positions, a subset of 0..63: `|` is set union, `&` is intersection and *)
(* a shift moves every position.  Small C ints (addresses, flags, bytes)   *)
(* are naturals, converted with Bits and ToNat.                            *)
(***************************************************************************)
EXTENDS Naturals, Integers, Sequences, FiniteSets, TLC

VARIABLES
    pc,          \* where main is: "fill", "open", "write", "flush", "close", "done", "crashed"
    i,           \* the loop variable of the for loop main is in
    n,           \* which of the eight streams (of1..of8) the next library call is made on
    promBuffer,  \* uint64_t promBuffer[PROM_SIZE]
    of,          \* FILE *of1..of8: "unset" before its fopen, then "open" or "NULL"
    files,       \* ctrl1.bin..ctrl8.bin: the bytes each file holds, NoFile when never created
    buf,         \* the bytes each stream has accepted and not yet written to its file
    closed,      \* the streams fclose has closed
    reported,    \* the destinations perror has reported
    evals,       \* how many times main has called GenerateControlSignals
    nullOps,     \* the library calls made with a NULL stream: <<call, stream>>
    evaluated,   \* the addresses evaluated so far when the pass runs in any order
    loc,         \* the argument of one call of GenerateControlSignals
    result       \* what that call returned, NoResult before it returns

vars == <<pc, i, n, promBuffer, of, files, buf, closed, reported, evals, nullOps, evaluated, loc, result>>

(***************************************************************************)
(* Bounds of the model.                                                    *)
(***************************************************************************)
\* main's loops are walked for the first MaxProm PROM locations only
MaxProm == 12

(***************************************************************************)
(* uint64_t as a bit vector.                                               *)
(***************************************************************************)
WordBits == 64

Word == SUBSET (0 .. WordBits - 1)

\* the bit vector of a small non-negative C integer
Bits(x) == {b \in 0 .. 30 : (x \div 2^b) % 2 = 1}

RECURSIVE ToNat(_)
\* the integer a bit vector stands for (used below 2^31 only)
ToNat(w) == IF w = {} THEN 0
            ELSE LET b == CHOOSE x \in w : TRUE IN 2^b + ToNat(w \ {b})

\* w << k on 64 bits: the bits shifted past bit 63 are lost
Shl(w, k) == {b + k : b \in w} \cap (0 .. WordBits - 1)

\* w >> k
Shr(w, k) == {b - k : b \in {x \in w : x >= k}}

\* an enumerator written (v << sh) << lane
Val(v, sh, lane) == Shl(Shl(Bits(v), sh), lane)

(***************************************************************************)
(* The flags.                                                              *)
(***************************************************************************)
FLAG_CONDITION == 4

(***************************************************************************)
(* The control signals named in GenerateControlSignals.                    *)
(***************************************************************************)
ADDR_BUS_1_ASSERT_PC == Val(0, 6, 0)

MAIN_BUS_ASSERT_R1 == Val(1, 0, 0)

MAIN_BUS_ASSERT_R2 == Val(2, 0, 0)

MAIN_BUS_ASSERT_FETCH == Val(19, 0, 0)

PC_DO_NOTHING == Val(0, 6, 8)

PC_LOAD == Val(1, 6, 8)

PC_INC == Val(2, 6, 8)

PC_DEC == Val(3, 6, 8)

INSTRUCTION_ASSERT == Val(0, 2, 16)

INSTRUCTION_SUPPRESS == Val(1, 2, 16)

R1_DO_NOTHING == Val(0, 1, 16)

\* faulty variant: R1 Load placed on bit 0, the bit of R2 Load
R1_LOAD_Bit0 == Val(1, 0, 16)
\* bit 1 -- R1 Load
R1_LOAD == Val(1, 1, 16)

R2_DO_NOTHING == Val(0, 0, 16)

R2_LOAD == Val(1, 0, 16)

CLC == Val(1, 7, 56)

STC == Val(1, 6, 56)

FETCH_ASSERT_MAIN == MAIN_BUS_ASSERT_FETCH \cup INSTRUCTION_SUPPRESS

R1_ASSERT_MAIN == MAIN_BUS_ASSERT_R1

R2_ASSERT_MAIN == MAIN_BUS_ASSERT_R2

(***************************************************************************)
(* The field layout: every field of the eight lanes with the values the    *)
(* enum names for it.                                                      *)
(***************************************************************************)
\* a field with the four values DO_NOTHING, LOAD, INC, DEC
Field2(name, sh, lane) == [name |-> name, vals |-> {Val(v, sh, lane) : v \in 0 .. 3}]

\* a one-bit field with both values named
Field1(name, sh, lane) == [name |-> name, vals |-> {Val(v, sh, lane) : v \in 0 .. 1}]

\* a one-bit signal of which only the asserted value is named
Signal(name, sh, lane) == [name |-> name, vals |-> {Val(1, sh, lane)}]

CTRL1 ==
    { [name |-> "ADDR_BUS_1_ASSERT", vals |-> {Val(v, 6, 0) : v \in 0 .. 3}],
      [name |-> "MAIN_BUS_ASSERT",
       vals |-> {Val(v, 0, 0) : v \in (0 .. 31) \cup (36 .. 45)}] }

CTRL2 ==
    { [name |-> "PC", vals |-> {PC_DO_NOTHING, PC_LOAD, PC_INC, PC_DEC}],
      Field2("RA", 4, 8), Field2("SP", 2, 8), Field2("INT_PC", 0, 8) }

CTRL3 ==
    { Field2("INT_RA", 6, 16), Field2("INT_SP", 4, 16), Field1("MEMORY", 3, 16),
      [name |-> "INSTRUCTION", vals |-> {INSTRUCTION_ASSERT, INSTRUCTION_SUPPRESS}],
      [name |-> "R1", vals |-> {R1_DO_NOTHING, R1_LOAD}],
      [name |-> "R2", vals |-> {R2_DO_NOTHING, R2_LOAD}] }

CTRL4 ==
    { Field1("R3", 7, 24), Field1("R4", 6, 24), Field1("R5", 5, 24), Field1("R6", 4, 24),
      Field1("R7", 3, 24), Field1("R8", 2, 24), Field1("R9", 1, 24), Field1("R10", 0, 24) }

CTRL5 ==
    { Field1("R11", 7, 32), Field1("R12", 6, 32), Field1("DEV01", 5, 32),
      Field1("CTL01", 4, 32), Field1("DEV02", 3, 32), Field1("CTL02", 2, 32),
      Field1("DEV03", 1, 32), Field1("CTL03", 0, 32) }

CTRL6 ==
    { Field1("DEV04", 7, 40), Field1("CTL04", 6, 40), Field1("DEV05", 5, 40),
      Field1("CTL05", 4, 40), Field1("DEV06", 3, 40), Field1("CTL06", 2, 40),
      Field1("DEV07", 1, 40), Field1("CTL07", 0, 40) }

CTRL7 ==
    { Field1("DEV08", 7, 48), Field1("CTL08", 6, 48), Field1("DEV09", 5, 48),
      Field1("CTL09", 4, 48), Field1("DEV10", 3, 48), Field1("CTL10", 2, 48) }

CTRL8 ==
    { [name |-> "CLC", vals |-> {CLC}], [name |-> "STC", vals |-> {STC}],
      Signal("PGM_Z_LATCH", 5, 56), Signal("PGM_C_LATCH", 4, 56),
      Signal("PGM_N_LATCH", 3, 56), Signal("PGM_V_LATCH", 2, 56),
      Signal("PGM_L_LATCH", 1, 56) }

Fields == CTRL1 \cup CTRL2 \cup CTRL3 \cup CTRL4 \cup CTRL5 \cup CTRL6 \cup CTRL7 \cup CTRL8

\* a field's mask: the OR of all its named values
FieldMask(f) == UNION f.vals

\* x is true when the condition was met: the FLAG_CONDITION bit of the flags is 0
CONDITION_MET(x) == ToNat(Bits(x) \cap Bits(FLAG_CONDITION)) = 0

(***************************************************************************)
(* The instructions (opcodes.h).                                           *)
(***************************************************************************)
OPCODE_NOP == 0

OPCODE_MOV_R1___16_ == 1

OPCODE_MOV_R2___16_ == 2

OPCODE_MOV_R2_R1 == 3

OPCODE_MOV_R1_R2 == 4

OPCODE_JMP___16_ == 5

OPCODE_JMP_R1 == 6

OPCODE_JMP_R2 == 7

OPCODE_CLC == 8

OPCODE_STC == 9

\* the size of the eeprom
PROM_SIZE == 1024 * 32


(***************************************************************************)
(* GenerateControlSignals: break the prom location down to the flags and   *)
(* instruction portions and determine the control lines.                   *)
(***************************************************************************)
\* a value that is no control word: the call has not returned
NoResult == {-1}

\* a value that is no control word: the call ended without returning one
Fault == {-2}

nop == ADDR_BUS_1_ASSERT_PC \cup PC_INC

out == ADDR_BUS_1_ASSERT_PC \cup PC_INC

\* faulty variant: the default arm runs off the end of the switch and returns nothing
Arm_default_NoReturn == Fault
\* faulty variant: the default arm suppresses the instruction decode
Arm_default_Suppress == nop \cup INSTRUCTION_SUPPRESS
\* default: case OPCODE_NOP:
Arm_default == nop

\* faulty variant: a failed condition does not skip the immediate word
Arm_MOV_R1___16__NoSkip(flags) ==
    IF ~CONDITION_MET(flags) THEN nop
    ELSE out \cup FETCH_ASSERT_MAIN \cup R1_LOAD
\* case OPCODE_MOV_R1___16_:
Arm_MOV_R1___16_(flags) ==
    IF ~CONDITION_MET(flags) THEN nop \cup INSTRUCTION_SUPPRESS
    ELSE out \cup FETCH_ASSERT_MAIN \cup R1_LOAD

\* case OPCODE_MOV_R2___16_:
Arm_MOV_R2___16_(flags) ==
    IF ~CONDITION_MET(flags) THEN nop \cup INSTRUCTION_SUPPRESS
    ELSE out \cup FETCH_ASSERT_MAIN \cup R2_LOAD

\* case OPCODE_MOV_R2_R1:
Arm_MOV_R2_R1(flags) ==
    IF ~CONDITION_MET(flags) THEN nop
    ELSE out \cup R1_ASSERT_MAIN \cup R2_LOAD

\* case OPCODE_MOV_R1_R2:
Arm_MOV_R1_R2(flags) ==
    IF ~CONDITION_MET(flags) THEN nop
    ELSE out \cup R2_ASSERT_MAIN \cup R1_LOAD

\* faulty variant: the jump is built on `out`, which carries PC_INC
Arm_JMP___16__OnOut(flags) ==
    IF ~CONDITION_MET(flags) THEN nop \cup INSTRUCTION_SUPPRESS
    ELSE out \cup FETCH_ASSERT_MAIN \cup PC_LOAD \cup INSTRUCTION_SUPPRESS
             \cup ADDR_BUS_1_ASSERT_PC
\* case OPCODE_JMP___16_:
Arm_JMP___16_(flags) ==
    IF ~CONDITION_MET(flags) THEN nop \cup INSTRUCTION_SUPPRESS
    ELSE FETCH_ASSERT_MAIN \cup PC_LOAD \cup INSTRUCTION_SUPPRESS \cup ADDR_BUS_1_ASSERT_PC

\* faulty variant: the jump is built on `out`, which carries PC_INC
Arm_JMP_R1_OnOut(flags) ==
    IF ~CONDITION_MET(flags) THEN nop
    ELSE out \cup R1_ASSERT_MAIN \cup PC_LOAD \cup INSTRUCTION_SUPPRESS
             \cup ADDR_BUS_1_ASSERT_PC
\* case OPCODE_JMP_R1:
Arm_JMP_R1(flags) ==
    IF ~CONDITION_MET(flags) THEN nop
    ELSE R1_ASSERT_MAIN \cup PC_LOAD \cup INSTRUCTION_SUPPRESS \cup ADDR_BUS_1_ASSERT_PC

\* faulty variant: a failed register jump skips a word, as the immediate jump does
Arm_JMP_R2_SkipOnFail(flags) ==
    IF ~CONDITION_MET(flags) THEN nop \cup INSTRUCTION_SUPPRESS
    ELSE R2_ASSERT_MAIN \cup PC_LOAD \cup INSTRUCTION_SUPPRESS \cup ADDR_BUS_1_ASSERT_PC
\* case OPCODE_JMP_R2:
Arm_JMP_R2(flags) ==
    IF ~CONDITION_MET(flags) THEN nop
    ELSE R2_ASSERT_MAIN \cup PC_LOAD \cup INSTRUCTION_SUPPRESS \cup ADDR_BUS_1_ASSERT_PC

\* case OPCODE_CLC:
Arm_CLC(flags) ==
    IF ~CONDITION_MET(flags) THEN nop
    ELSE out \cup CLC

\* case OPCODE_STC:
Arm_STC(flags) ==
    IF ~CONDITION_MET(flags) THEN nop
    ELSE out \cup STC

GenerateControlSignals(a) ==
    LET flags == ToNat(Shr(Bits(a), 12) \cap Bits(7))
        instr == ToNat(Shr(Bits(a), 0) \cap Bits(4095))
    IN  CASE instr = OPCODE_NOP -> Arm_default
          [] instr = OPCODE_MOV_R1___16_ -> Arm_MOV_R1___16_(flags)
          [] instr = OPCODE_MOV_R2___16_ -> Arm_MOV_R2___16_(flags)
          [] instr = OPCODE_MOV_R2_R1 -> Arm_MOV_R2_R1(flags)
          [] instr = OPCODE_MOV_R1_R2 -> Arm_MOV_R1_R2(flags)
          [] instr = OPCODE_JMP___16_ -> Arm_JMP___16_(flags)
          [] instr = OPCODE_JMP_R1 -> Arm_JMP_R1(flags)
          [] instr = OPCODE_JMP_R2 -> Arm_JMP_R2(flags)
          [] instr = OPCODE_CLC -> Arm_CLC(flags)
          [] instr = OPCODE_STC -> Arm_STC(flags)
          [] OTHER -> Arm_default

(***************************************************************************)
(* main.                                                                   *)
(***************************************************************************)
\* the eight output streams of1..of8, writing ctrl1.bin..ctrl8.bin
Streams == 1 .. 8

\* a file that was never created
NoFile == <<-1>>

\* i < PROM_SIZE, walked for the first MaxProm locations
LoopLimit == IF PROM_SIZE < MaxProm THEN PROM_SIZE ELSE MaxProm

InitMain ==
    /\ pc = "fill"
    /\ i = 0
    /\ n = 1
    /\ promBuffer = [a \in 0 .. LoopLimit - 1 |-> {}]
    /\ of = [k \in Streams |-> "unset"]
    /\ files = [k \in Streams |-> NoFile]
    /\ buf = [k \in Streams |-> <<>>]
    /\ closed = {}
    /\ reported = {}
    /\ evals = 0
    /\ nullOps = {}
    /\ evaluated = {}

mainVars == <<pc, i, n, promBuffer, of, files, buf, closed, reported, evals, nullOps, evaluated>>

\* for (int i = 0; i < PROM_SIZE; i ++) promBuffer[i] = GenerateControlSignals(i);
Fill ==
    /\ pc = "fill"
    /\ i < LoopLimit
    /\ promBuffer' = [promBuffer EXCEPT ![i] = GenerateControlSignals(i)]
    /\ evals' = evals + 1
    /\ IF i + 1 < LoopLimit
       THEN i' = i + 1 /\ pc' = "fill"
       ELSE i' = 0 /\ pc' = "open"
    /\ UNCHANGED <<n, of, files, buf, closed, reported, nullOps, evaluated, loc, result>>

\* ofN = fopen("ctrlN.bin", "w"); if (!ofN) perror("Unable to open ctrlN.bin");
Fopen ==
    /\ pc = "open"
    /\ \E ok \in BOOLEAN :
          /\ of' = [of EXCEPT ![n] = IF ok THEN "open" ELSE "NULL"]
          /\ files' = IF ok THEN [files EXCEPT ![n] = <<>>] ELSE files
          /\ reported' = IF ok THEN reported ELSE reported \cup {n}
    /\ IF n < 8
       THEN n' = n + 1 /\ pc' = "open"
       ELSE n' = 1 /\ pc' = "write"
    /\ UNCHANGED <<i, promBuffer, buf, closed, evals, nullOps, evaluated, loc, result>>

\* faulty variant: the planes are taken most significant byte first
PlaneByte_MsbFirst(w, k) == ToNat(Shr(w, 8 * (8 - k)) \cap Bits(255))
\* uint8_t byteK = (promBuffer[i] >> 8 * (K - 1)) & 0xff;
PlaneByte(w, k) == ToNat(Shr(w, 8 * (k - 1)) \cap Bits(255))

\* fwrite(&byteN, 1, sizeof(uint8_t), ofN), the N-th call of iteration i of the loop.
\* With ofN == NULL the call has undefined behaviour: the run ends there (a
\* segmentation fault) or the library ignores the call.
Fwrite ==
    /\ pc = "write"
    /\ \/ /\ of[n] = "open"
          /\ buf' = [buf EXCEPT ![n] = Append(@, PlaneByte(promBuffer[i], n))]
          /\ UNCHANGED nullOps
          /\ IF n < 8 THEN n' = n + 1 /\ i' = i /\ pc' = "write"
             ELSE IF i + 1 < LoopLimit THEN n' = 1 /\ i' = i + 1 /\ pc' = "write"
             ELSE n' = 1 /\ i' = 0 /\ pc' = "flush"
       \/ /\ of[n] = "NULL"
          /\ nullOps' = nullOps \cup {<<"fwrite", n>>}
          /\ UNCHANGED buf
          /\ \/ pc' = "crashed" /\ UNCHANGED <<i, n>>
             \/ IF n < 8 THEN n' = n + 1 /\ i' = i /\ pc' = "write"
                ELSE IF i + 1 < LoopLimit THEN n' = 1 /\ i' = i + 1 /\ pc' = "write"
                ELSE n' = 1 /\ i' = 0 /\ pc' = "flush"
    /\ UNCHANGED <<promBuffer, of, files, closed, reported, evals, evaluated, loc, result>>

\* the file of stream k after the stream's buffer is written out
Flushed(k) == IF of[k] = "open" /\ k \notin closed THEN files[k] \o buf[k] ELSE files[k]

\* fflush(ofN).  fflush(NULL) flushes every open output stream.
Fflush ==
    /\ pc = "flush"
    /\ \/ /\ of[n] = "open"
          /\ files' = [files EXCEPT ![n] = Flushed(n)]
          /\ buf' = [buf EXCEPT ![n] = <<>>]
          /\ UNCHANGED nullOps
       \/ /\ of[n] = "NULL"
          /\ nullOps' = nullOps \cup {<<"fflush", n>>}
          /\ files' = [k \in Streams |-> Flushed(k)]
          /\ buf' = [k \in Streams |-> IF of[k] = "open" /\ k \notin closed THEN <<>> ELSE buf[k]]
    /\ IF n < 8
       THEN n' = n + 1 /\ pc' = "flush"
       ELSE n' = 1 /\ pc' = "close"
    /\ UNCHANGED <<i, promBuffer, of, closed, reported, evals, evaluated, loc, result>>

\* fclose(ofN).  With ofN == NULL the call has undefined behaviour, as in Fwrite.
Fclose ==
    /\ pc = "close"
    /\ \/ /\ of[n] = "open"
          /\ files' = [files EXCEPT ![n] = Flushed(n)]
          /\ buf' = [buf EXCEPT ![n] = <<>>]
          /\ closed' = closed \cup {n}
          /\ UNCHANGED nullOps
          /\ IF n < 8 THEN n' = n + 1 /\ pc' = "close" ELSE n' = 1 /\ pc' = "done"
       \/ /\ of[n] = "NULL"
          /\ nullOps' = nullOps \cup {<<"fclose", n>>}
          /\ UNCHANGED <<files, buf, closed>>
          /\ \/ pc' = "crashed" /\ UNCHANGED n
             \/ IF n < 8 THEN n' = n + 1 /\ pc' = "close" ELSE n' = 1 /\ pc' = "done"
    /\ UNCHANGED <<i, promBuffer, of, reported, evals, evaluated, loc, result>>

Init ==
    /\ InitMain
    /\ loc = 0
    /\ result = NoResult

Next == Fill \/ Fopen \/ Fwrite \/ Fflush \/ Fclose

Spec == Init /\ [][Next]_vars

\* main runs to its end unless it is killed: the fill loop is never starved
LiveSpec == Init /\ [][Next]_vars /\ WF_vars(Fill)

(***************************************************************************)
(* The table-filling pass with its evaluations made in any order.          *)
(***************************************************************************)
InitAny ==
    /\ InitMain
    /\ loc = 0
    /\ result = NoResult

\* faulty variant: an evaluation carries over the bits of the entry before it
FillAny_Carry ==
    /\ pc = "fill"
    /\ \E a \in (0 .. LoopLimit - 1) \ evaluated :
          /\ promBuffer' = [promBuffer EXCEPT ![a] =
                               GenerateControlSignals(a)
                               \cup (IF a > 0 THEN promBuffer[a - 1] ELSE {})]
          /\ evaluated' = evaluated \cup {a}
    /\ evals' = evals + 1
    /\ UNCHANGED <<pc, i, n, of, files, buf, closed, reported, nullOps, loc, result>>
\* promBuffer[a] = GenerateControlSignals(a), for any a not yet evaluated
FillAny ==
    /\ pc = "fill"
    /\ \E a \in (0 .. LoopLimit - 1) \ evaluated :
          /\ promBuffer' = [promBuffer EXCEPT ![a] = GenerateControlSignals(a)]
          /\ evaluated' = evaluated \cup {a}
    /\ evals' = evals + 1
    /\ UNCHANGED <<pc, i, n, of, files, buf, closed, reported, nullOps, loc, result>>

NextAny == FillAny

SpecAnyOrder == InitAny /\ [][NextAny]_vars

(***************************************************************************)
(* One call of GenerateControlSignals on any PROM location.                *)
(***************************************************************************)
InitGen ==
    /\ InitMain
    /\ loc \in 0 .. PROM_SIZE - 1
    /\ result = NoResult

Generate ==
    /\ result = NoResult
    /\ result' = GenerateControlSignals(loc)
    /\ UNCHANGED <<loc, mainVars>>

NextGen == Generate

SpecGen == InitGen /\ [][NextGen]_vars

(***************************************************************************)
(* Properties.  An address is sliced here by arithmetic: bits 11:0 are the *)
(* opcode, bits 14:12 the flags, bit 14 the condition bit.                 *)
(***************************************************************************)
AddrInstr(a) == a % 4096

AddrFlags(a) == (a \div 4096) % 8

ConditionBit(a) == (a \div 16384) % 2

ImmediateOpcodes == {OPCODE_MOV_R1___16_, OPCODE_MOV_R2___16_, OPCODE_JMP___16_}

PlainOpcodes == {OPCODE_MOV_R2_R1, OPCODE_MOV_R1_R2, OPCODE_JMP_R1, OPCODE_JMP_R2,
                 OPCODE_CLC, OPCODE_STC}

JumpOpcodes == {OPCODE_JMP___16_, OPCODE_JMP_R1, OPCODE_JMP_R2}

\* bits 15:14 of a control word
PCField(w) == w \cap (14 .. 15)

\* C1: at an address whose condition bit (bit 14) is set, a conditional opcode yields
\* ADDR_BUS_1_ASSERT_PC | PC_INC | INSTRUCTION_SUPPRESS when it consumes a trailing
\* immediate and ADDR_BUS_1_ASSERT_PC | PC_INC when it does not, whatever bits 13:12 are.
C1_ConditionGating ==
    (result # NoResult /\ ConditionBit(loc) = 1) =>
        /\ AddrInstr(loc) \in ImmediateOpcodes =>
              result = ADDR_BUS_1_ASSERT_PC \cup PC_INC \cup INSTRUCTION_SUPPRESS
        /\ AddrInstr(loc) \in PlainOpcodes =>
              result = ADDR_BUS_1_ASSERT_PC \cup PC_INC

\* MOV R1,imm16 with all three flag bits set has returned idle with suppress
C1_Witness ==
    /\ result = {15, 18}
    /\ AddrInstr(loc) = OPCODE_MOV_R1___16_
    /\ AddrFlags(loc) = 7

\* C2: at an address whose opcode is OPCODE_NOP or has no explicit case, the result is
\* the canonical idle word ADDR_BUS_1_ASSERT_PC | PC_INC, the instruction decode not
\* suppressed, for all 8 values of the flags.
C2_IdleDefault ==
    (/\ result # NoResult
     /\ \/ AddrInstr(loc) = OPCODE_NOP
        \/ AddrInstr(loc) \notin ImmediateOpcodes \cup PlainOpcodes) =>
        /\ result = ADDR_BUS_1_ASSERT_PC \cup PC_INC
        /\ result \cap INSTRUCTION_SUPPRESS = {}

\* the highest opcode value, which has no case, with all flag bits set has returned idle
C2_Witness ==
    /\ result = {15}
    /\ AddrInstr(loc) = 4095
    /\ AddrInstr(loc) \notin ImmediateOpcodes \cup PlainOpcodes \cup {OPCODE_NOP}
    /\ AddrFlags(loc) = 7

\* C5: JMP imm16 with the condition met yields exactly
\* MAIN_BUS_ASSERT_FETCH | PC_LOAD | INSTRUCTION_SUPPRESS | ADDR_BUS_1_ASSERT_PC, whose
\* PC field is PC_LOAD with the PC_INC bit (bit 15) clear.
C5_JumpImmediate ==
    (result # NoResult /\ AddrInstr(loc) = OPCODE_JMP___16_ /\ ConditionBit(loc) = 0) =>
        /\ result = MAIN_BUS_ASSERT_FETCH \cup PC_LOAD \cup INSTRUCTION_SUPPRESS
                        \cup ADDR_BUS_1_ASSERT_PC
        /\ PCField(result) = PC_LOAD
        /\ 15 \notin result

\* JMP imm16 with the condition met and both other flag bits set has returned its word
C5_Witness ==
    /\ result = {0, 1, 4, 14, 18}
    /\ AddrInstr(loc) = OPCODE_JMP___16_
    /\ AddrFlags(loc) = 3

\* C10: the PC field (bits 15:14) of every generated word is PC_INC or PC_LOAD, never
\* PC_DO_NOTHING and never PC_DEC; it is PC_LOAD exactly when the opcode is one of the
\* three jumps and the condition bit is clear, and PC_INC at every other address.
C10_PCField ==
    result # NoResult =>
        /\ PCField(result) \in {PC_INC, PC_LOAD}
        /\ PCField(result) \notin {PC_DO_NOTHING, PC_DEC}
        /\ PCField(result) = PC_LOAD <=>
              (AddrInstr(loc) \in JumpOpcodes /\ ConditionBit(loc) = 0)
        /\ PCField(result) = PC_INC <=>
              ~(AddrInstr(loc) \in JumpOpcodes /\ ConditionBit(loc) = 0)

\* JMP R1 with the condition met has returned a word that loads the PC
C10_Witness ==
    /\ result # NoResult
    /\ AddrInstr(loc) = OPCODE_JMP_R1
    /\ ConditionBit(loc) = 0
    /\ PCField(result) = {14}

\* every stream was opened
AllOpened == \A k \in Streams : of[k] = "open"

\* bits [8(k-1), 8(k-1)+7] of a control word, as a bit vector of 8 bits
PlaneBits(w, k) == {b \in 0 .. 7 : 8 * (k - 1) + b \in w}

\* the word that the bytes at position a of the eight files make, least significant
\* plane first
Reassembled(a) == UNION {Shl(Bits(files[k][a + 1]), 8 * (k - 1)) : k \in Streams}

\* file k holds plane k of the whole table
FullPlane(k) ==
    /\ files[k] # NoFile
    /\ Len(files[k]) = LoopLimit
    /\ \A a \in 0 .. LoopLimit - 1 :
          Bits(files[k][a + 1]) = PlaneBits(GenerateControlSignals(a), k)

\* C3: a destination that fails to open is reported and then skipped: no write, flush
\* or close is ever performed on the unopened destination, and the other destinations
\* still receive their full planes.
C3_UnopenedSkipped ==
    /\ \A k \in Streams : of[k] = "NULL" => k \in reported
    /\ nullOps = {}
    /\ pc \in {"done", "crashed"} => \A k \in Streams : of[k] = "open" => FullPlane(k)

\* C4: when all eight destinations open, after main finishes each file holds one byte
\* per PROM location, byte a of file k being bits [8(k-1), 8(k-1)+7] of
\* GenerateControlSignals(a), so that the eight bytes at position a, least significant
\* plane first, make up GenerateControlSignals(a) again.
C4_BytePlanes ==
    (pc = "done" /\ AllOpened) =>
        /\ \A k \in Streams : FullPlane(k)
        /\ \A a \in 0 .. LoopLimit - 1 : Reassembled(a) = GenerateControlSignals(a)

\* main has finished with all eight files open, and ctrl8.bin holds the CLC bit of the
\* CLC instruction
C4_Witness ==
    /\ pc = "done"
    /\ AllOpened
    /\ closed = Streams
    /\ Len(files[8]) = LoopLimit
    /\ files[8][OPCODE_CLC + 1] = 128
    /\ files[2][OPCODE_JMP_R2 + 1] = 64

\* C6: the table-filling pass is order-independent: in whatever order the addresses
\* are evaluated, every evaluated entry is GenerateControlSignals of its own address
\* and every other entry is untouched, so the final promBuffer is the same.
C6_OrderIndependent ==
    \A a \in 0 .. LoopLimit - 1 :
        /\ a \in evaluated => promBuffer[a] = GenerateControlSignals(a)
        /\ a \notin evaluated => promBuffer[a] = {}

\* the odd addresses have been evaluated before any even one, an order main never
\* takes, and the entry of JMP imm16 is the one main computes
C6_Witness ==
    /\ evaluated = {a \in 0 .. LoopLimit - 1 : a % 2 = 1}
    /\ promBuffer[OPCODE_JMP___16_] = {0, 1, 4, 14, 18}
    /\ promBuffer[OPCODE_JMP___16_ - 1] = {}

\* any two distinct fields of the layout have disjoint bit masks
LayoutDisjoint ==
    /\ Cardinality(Fields) = 49
    /\ \A f, g \in Fields : f # g => FieldMask(f) \cap FieldMask(g) = {}

\* C8: any two distinct fields of the layout have disjoint bit masks, a field's mask
\* being the OR of all its named values; so every word of the table is the OR of its
\* fields, each field holding one of its named values or nothing.
C8_FieldsDisjoint ==
    /\ LayoutDisjoint
    /\ \A a \in 0 .. LoopLimit - 1 :
          /\ promBuffer[a] = UNION {promBuffer[a] \cap FieldMask(f) : f \in Fields}
          /\ \A f \in Fields :
                promBuffer[a] \cap FieldMask(f) # {} => promBuffer[a] \cap FieldMask(f) \in f.vals

\* main has stored a word that sets four fields, each to one of its named values,
\* and the word is nothing but its fields
C8_Witness ==
    /\ pc = "done"
    /\ LET w == promBuffer[OPCODE_MOV_R1___16_]
       IN  /\ Cardinality({f \in Fields : w \cap FieldMask(f) # {}}) = 4
           /\ \A f \in Fields : w \cap FieldMask(f) # {} => w \cap FieldMask(f) \in f.vals
           /\ w = UNION {w \cap FieldMask(f) : f \in Fields}

\* GenerateControlSignals returns a control word at every PROM location
TotalOnProm == \A a \in 0 .. PROM_SIZE - 1 : GenerateControlSignals(a) \in Word

\* C9: GenerateControlSignals returns a control word at every address of the PROM, and
\* the table-filling loop of main terminates after exactly one evaluation per location.
C9_TotalAndTerminates ==
    /\ <>(pc # "fill")
    /\ [](/\ TotalOnProm
          /\ evals <= LoopLimit
          /\ pc = "fill" => evals = i
          /\ pc # "fill" => /\ evals = LoopLimit
                            /\ \A a \in 0 .. LoopLimit - 1 : promBuffer[a] \in Word)

\* the fill loop has ended after one evaluation per location; the last entries, whose
\* opcodes have no case, hold the idle word
C9_Witness ==
    /\ pc = "open"
    /\ evals = LoopLimit
    /\ promBuffer[LoopLimit - 1] = {15}

RegisterJumpOpcodes == {OPCODE_JMP_R1, OPCODE_JMP_R2}

\* C11: a generated word has the INSTRUCTION_SUPPRESS bit (bit 18) set if and only if
\* the opcode consumes a trailing immediate (condition met or not) or the opcode is a
\* register jump with the condition met; at every other address, register jumps whose
\* condition failed included, the instruction decode is left enabled.
C11_SuppressExactly ==
    result # NoResult =>
        (18 \in result <=>
            \/ AddrInstr(loc) \in ImmediateOpcodes
            \/ AddrInstr(loc) \in RegisterJumpOpcodes /\ ConditionBit(loc) = 0)

\* JMP R2 with the condition failed has returned the idle word, the decode enabled
C11_Witness ==
    /\ result = {15}
    /\ AddrInstr(loc) = OPCODE_JMP_R2
    /\ ConditionBit(loc) = 1

====
